---------------------------- MODULE Spec2Model ----------------------------
(***************************************************************************)
(* Teacup firmware (modmaker fork), dda.c: the move planner dda_create,    *)
(* the activator dda_start, the step interrupt body dda_step and the       *)
(* position tracker update_position, as configured by                      *)
(* config.ramps-v1.3.h (NEW_DDA_CALCULATIONS, ACCELERATION_RAMPING,        *)
(* relative E, STEP_INTERRUPT_INTERRUPTIBLE).                              *)
(*                                                                         *)
(* Spec     : every handler is one atomic action.                          *)
(* SpecFair : Spec with the step timer firing fairly.                      *)
(* SpecISR  : dda_step split at its sei()/cli() boundaries, with the       *)
(*            timer interrupt and the global interrupt flag.               *)
(* SpecTorn : Spec with update_position reading axis by axis, the step     *)
(*            interrupt running between the reads.                         *)
(* SpecScenario : Spec's handlers on a 1000-step move and on 10-step moves.*)
(* SpecReprap : the ACCELERATION_REPRAP (taper) build of the handlers.     *)
(* SpecPlan : dda_create and dda_start on longer moves, no stepping.       *)
(***************************************************************************)
EXTENDS Integers, Naturals, Sequences, FiniteSets, TLC

(***************************************************************************)
(* Bounds of the model.                                                    *)
(***************************************************************************)
\* targets are drawn from 0..MaxX x 0..MaxY x 0..MaxZ x 0..MaxE
MaxX == 2
MaxY == 1
MaxZ == 1
MaxE == 1
\* records planned but not yet activated
MaxPending == 1
\* moves planned in one run
MaxMoves == 2
\* depth of nested step interrupts the model follows
MaxNest == 2
\* cap on dda_step invocations per activated record (never binding: a move
\* takes total_steps + 1 invocations)
MaxTicks == 6
\* the long move of the scenarios, in steps (X; Y gets half of it), and the
\* cap on its dda_step invocations
ScenarioLong == 1000
ScenarioMaxTicks == 1002
\* the short moves of the scenarios: steps on the longest axis, and a
\* shorter Z travel
ScenarioShort == 10
ScenarioShortZ == 7
ScenarioShortY == 2
\* a feed rate at which a short move cannot finish its ramp
MEDIUM_FEEDRATE == 450
\* feed rates near SEARCH_FEEDRATE_Z and near MEDIUM_FEEDRATE, for moves
\* that change speed only a little
SLOWER_FEEDRATE == 73
HIGHER_FEEDRATE == 550
\* an extruder move too short to last a whole time unit at HIGHER_FEEDRATE
ReprapShortE == 2

\* the planner's longer moves: PlanX steps of X or Y and PlanZ steps of Z
\* are both 800 um, eight times the 100 um of PlanE steps of E
PlanX == 32
PlanZ == 800
PlanE == 25
\* a long extrusion: 240 mm of filament, a distance of 18 bits
PlanLongE == 60000

(***************************************************************************)
(* Program constants.                                                      *)
(***************************************************************************)
F_CPU == 16000000
ACCELERATION == 400
MOVEBUFFER_SIZE == 8
STEP_INTERRUPT_INTERRUPTIBLE == 1
\* #define E_ABSOLUTE is commented out: the extruder axis is relative
E_ABSOLUTE == 0
MOTOR_S_P_R == 200
MICROSTEPPING == 8
\* MAX_REV_SPEED_X/Y = 3.5 and MAX_REV_SPEED_Z/E = 4.0 rev/s, kept in tenths
MAX_REV_SPEED_XY_x10 == 35
MAX_REV_SPEED_ZE_x10 == 40

\* TIME_SCALING (F_CPU / 1000), IOclocks per ms
TIME_SCALING == F_CPU \div 1000

(***************************************************************************)
(* Build-time kinematic configuration that lives in headers outside the    *)
(* sources at hand (prusa_mech.h, wades_extruder.h, config_macros.h,       *)
(* dda.h): micrometres per step of each axis, the per-axis minimum clocks  *)
(* per step and the default feed rate.                                     *)
(***************************************************************************)
UM_PER_STEP_X == 25
UM_PER_STEP_Y == 25
UM_PER_STEP_Z == 1
UM_PER_STEP_E == 4
SEARCH_FEEDRATE_Z == 75
\* a second, faster feed rate a G-code line may ask for
FAST_FEEDRATE == 1500

MIN_CLOCKS_PER_STEP_X == (F_CPU * 10) \div (MAX_REV_SPEED_XY_x10 * MOTOR_S_P_R * MICROSTEPPING)
MIN_CLOCKS_PER_STEP_Y == (F_CPU * 10) \div (MAX_REV_SPEED_XY_x10 * MOTOR_S_P_R * MICROSTEPPING)
MIN_CLOCKS_PER_STEP_Z == (F_CPU * 10) \div (MAX_REV_SPEED_ZE_x10 * MOTOR_S_P_R * MICROSTEPPING)
MIN_CLOCKS_PER_STEP_E == (F_CPU * 10) \div (MAX_REV_SPEED_ZE_x10 * MOTOR_S_P_R * MICROSTEPPING)

STEPS_TO_UM_X(steps) == steps * UM_PER_STEP_X
STEPS_TO_UM_Y(steps) == steps * UM_PER_STEP_Y
STEPS_TO_UM_Z(steps) == steps * UM_PER_STEP_Z
STEPS_TO_UM_E(steps) == steps * UM_PER_STEP_E


(***************************************************************************)
(* C arithmetic helpers.                                                   *)
(***************************************************************************)
\* labs()
labs(v) == IF v < 0 THEN -v ELSE v

\* C's signed division truncates toward zero
CDiv(a, b) ==
    IF b > 0
      THEN (IF a >= 0 THEN a \div b ELSE -((-a) \div b))
      ELSE (IF a >= 0 THEN -(a \div (-b)) ELSE (-a) \div (-b))

\* v >> k and v << k on non-negative values
Shr(v, k) == v \div (2 ^ k)
Shl(v, k) == v * (2 ^ k)

Max2(a, b) == IF a > b THEN a ELSE b
Min2(a, b) == IF a < b THEN a ELSE b

\* floor(a * b / d) and the remainder, as the double-precision product and
\* quotient of dda.c 262 give them; the product a * b is never formed
RECURSIVE MulDivQR(_, _, _)
MulDivQR(a, b, d) ==
    IF a = 0 THEN [q |-> 0, r |-> 0]
    ELSE LET h == MulDivQR(a \div 16, b, d)
             t == 16 * h.r + (a % 16) * b
         IN  [q |-> 16 * h.q + t \div d, r |-> t % d]

(***************************************************************************)
(* uint32_t arithmetic.  A uint32_t that may use its top bit is kept as    *)
(* its two 16-bit halves; products wrap modulo 2^32 as in C.               *)
(***************************************************************************)
U32(v) == [hi |-> (v \div 65536) % 65536, lo |-> v % 65536]

\* the product of two 16-bit values, whole
Mul16(u, v) ==
    LET t1 == (u \div 256) * v
        t0 == ((t1 % 256) * 256) + (u % 256) * v
    IN  [hi |-> t1 \div 256 + t0 \div 65536, lo |-> t0 % 65536]

\* a * p modulo 2^32
Mul32(a, p) ==
    LET al == a % 65536
        ah == (a \div 65536) % 65536
        m == Mul16(al, p.lo)
    IN  [hi |-> (m.hi + Mul16(al, p.hi).lo + Mul16(ah, p.lo).lo) % 65536,
         lo |-> m.lo]

\* p >> k for k in 0..16
Shr32(p, k) ==
    [hi |-> p.hi \div (2 ^ k),
     lo |-> p.lo \div (2 ^ k) + (p.hi % (2 ^ k)) * (2 ^ (16 - k))]

\* one digit of the long division by d: the quotient and remainder so far
\* take in the next four bits
DivStep(qr, digit, d) ==
    LET t == qr.r * 16 + digit
    IN  [q |-> qr.q * 16 + t \div d, r |-> t % d]

\* the four hexadecimal digits of a 16-bit value, highest first
Hex(v) == <<v \div 4096, (v \div 256) % 16, (v \div 16) % 16, v % 16>>

\* p / d for a divisor below 2^27
Div32(p, d) ==
    LET h == Hex(p.hi)
        l == Hex(p.lo)
        s1 == DivStep([q |-> 0, r |-> 0], h[1], d)
        s2 == DivStep(s1, h[2], d)
        s3 == DivStep(s2, h[3], d)
        s4 == DivStep(s3, h[4], d)
        s5 == DivStep(s4, l[1], d)
        s6 == DivStep(s5, l[2], d)
        s7 == DivStep(s6, l[3], d)
    IN  DivStep(s7, l[4], d).q

\* the value of p, for p below 2^31
IntOf(p) == p.hi * 65536 + p.lo

(***************************************************************************)
(* Helpers of dda_util: integer square root and the distance               *)
(* approximations.                                                         *)
(***************************************************************************)
RECURSIVE SqrtSearch(_, _, _)
SqrtSearch(a, lo, hi) ==
    IF lo >= hi THEN lo
    ELSE LET mid == (lo + hi + 1) \div 2
         IN  IF mid * mid <= a THEN SqrtSearch(a, mid, hi)
             ELSE SqrtSearch(a, lo, mid - 1)

\* floor of the square root
int_sqrt(a) == SqrtSearch(a, 0, Min2(a, 46340))

approx_distance_2d(dx, dy) ==
    LET mn == Min2(dx, dy)
        mx == Max2(dx, dy)
        a0 == mx * 1007 + mn * 441
        a1 == IF mx < Shl(mn, 4) THEN a0 - mx * 40 ELSE a0
    IN  Shr(a1 + 512, 10)

approx_distance_3d(dx, dy, dz) ==
    LET mx == Max2(dx, Max2(dy, dz))
        mn == Min2(dx, Min2(dy, dz))
        md == dx + dy + dz - mx - mn
        a0 == mx * 860 + md * 851 + mn * 520
        a1 == IF mx < Shl(md, 1) THEN a0 - mx * 294 ELSE a0
        a2 == IF mx < Shl(mn, 2) THEN a1 - mx * 113 ELSE a1
        a3 == IF md < Shl(mn, 2) THEN a2 - md * 40 ELSE a2
    IN  Shr(a3 + 512, 10)

(***************************************************************************)
(* State.                                                                  *)
(***************************************************************************)
VARIABLES
    startpoint,        \* TARGET: target position of the last move in the queue
    current_position,  \* TARGET: position of the extruder head
    move_state,        \* MOVE_STATE: counters of the running move
    movebuffer,        \* the queue: Head is movebuffer[mb_tail], the record
                       \* activated last; the rest are planned, in order
    hw,                \* outputs: driver enables, directions, step pins, timer
    pulses,            \* step pulses emitted per axis since the last dda_start
    ticks,             \* dda_step invocations since the last dda_start
    plan_trace,        \* values dda_create reports under DEBUG_DDA
    planned,           \* number of dda_create calls so far
    iflag,             \* global interrupt enable (sei / cli)
    timer_en,          \* step timer compare interrupt enabled
    isr,               \* stack of running dda_step invocations
    last_step,         \* per axis, the tick of its latest pulse (0: none yet)
    upd,               \* update_position in progress in the foreground
    recalcs            \* speed recalculations of dda_step since the last
                       \* dda_start: accelerating (up), decelerating (down)

vars == <<startpoint, current_position, move_state, movebuffer, hw, pulses,
          ticks, plan_trace, planned, iflag, timer_en, isr, last_step, upd,
          recalcs>>

Feedrates == {SEARCH_FEEDRATE_Z, FAST_FEEDRATE}

Targets == [X : 0..MaxX, Y : 0..MaxY, Z : 0..MaxZ, E : 0..MaxE, F : Feedrates]

ZeroTarget == [X |-> 0, Y |-> 0, Z |-> 0, E |-> 0, F |-> 0]

\* a movebuffer slot as .bss leaves it
ZeroDDA ==
    [endpoint |-> ZeroTarget,
     x_delta |-> 0, y_delta |-> 0, z_delta |-> 0, e_delta |-> 0,
     x_direction |-> 0, y_direction |-> 0, z_direction |-> 0, e_direction |-> 0,
     total_steps |-> 0, nullmove |-> 0, live |-> 0,
     c0 |-> 0, c_min |-> 0, rampup_steps |-> 0, rampdown_steps |-> 0]

ZeroPulses == [X |-> 0, Y |-> 0, Z |-> 0, E |-> 0]


(***************************************************************************)
(* dda_create: the move planner.                                           *)
(***************************************************************************)
\* the E comparison left out
TotalSteps_WithoutE(x_delta, y_delta, z_delta, e_delta) ==
    Max2(x_delta, Max2(y_delta, z_delta))

\* dda.c 113-119: the largest step count of all the axes
TotalSteps(x_delta, y_delta, z_delta, e_delta) ==
    LET t0 == x_delta
        t1 == IF y_delta > t0 THEN y_delta ELSE t0
        t2 == IF z_delta > t1 THEN z_delta ELSE t1
    IN  IF e_delta > t2 THEN e_delta ELSE t2

\* dda.c 137-149: distance of the X/Y/Z part of the move, in um
PlanarDistance(x_delta, y_delta, z_delta) ==
    IF z_delta = 0
      THEN (IF x_delta = 0 THEN STEPS_TO_UM_Y(y_delta)
            ELSE IF y_delta = 0 THEN STEPS_TO_UM_X(x_delta)
            ELSE approx_distance_2d(STEPS_TO_UM_X(x_delta), STEPS_TO_UM_Y(y_delta)))
      ELSE IF x_delta = 0 /\ y_delta = 0 THEN STEPS_TO_UM_Z(z_delta)
      ELSE approx_distance_3d(STEPS_TO_UM_X(x_delta), STEPS_TO_UM_Y(y_delta),
                              STEPS_TO_UM_Z(z_delta))

\* the E feed folded in at the threshold itself too
FoldEFeed_AtThreshold(distance, e_feed) ==
    IF distance <= Shl(e_feed, 3) THEN approx_distance_2d(distance, e_feed)
    ELSE distance

\* dda.c 153-157: a significant E feed is folded into the distance
FoldEFeed(distance, e_feed) ==
    IF distance < Shl(e_feed, 3) THEN approx_distance_2d(distance, e_feed)
    ELSE distance

\* dda.c 187, 225-254: the slowest step period any axis or the feed asks for
CLimit(x_delta, y_delta, z_delta, e_delta, total_steps, distance, F) ==
    LET move_duration == distance * 60
        l0 == TIME_SCALING * (move_duration \div F)
        l1 == Max2(l0, x_delta * MIN_CLOCKS_PER_STEP_X)
        l2 == Max2(l1, y_delta * MIN_CLOCKS_PER_STEP_Y)
        l3 == Max2(l2, z_delta * MIN_CLOCKS_PER_STEP_Z)
        l4 == Max2(l3, e_delta * MIN_CLOCKS_PER_STEP_E)
    IN  l4 \div total_steps

\* dda.c 262: the step period of the first step
InitialPeriod(total_steps, distance) ==
    Shl(F_CPU \div int_sqrt(MulDivQR(1000 * ACCELERATION, total_steps, distance).q), 8)

\* the scaling down done after the multiplication by distance
RampLength_ShiftAfter(c_limit, distance, total_steps) ==
    LET x0 == F_CPU \div c_limit
        x1 == Mul32(x0, U32(x0))
        x2 == Mul32(distance, x1)
        x3 == Shr32(x2, 12)
    IN  Div32(x3, IntOf(Shr32(Mul32(Shr(2000 * ACCELERATION, 6),
                                    U32(total_steps)), 6)))

\* dda.c 352-373: the length of the ramps, before clipping, staged in
\* the uint32_t x
RampLength(c_limit, distance, total_steps) ==
    LET x0 == F_CPU \div c_limit
        x1 == Mul32(x0, U32(x0))
        x2 == Shr32(x1, 12)
        x3 == Mul32(distance, x2)
    IN  Div32(x3, IntOf(Shr32(Mul32(Shr(2000 * ACCELERATION, 6),
                                    U32(total_steps)), 6)))

\* the clipping left out
ClipRampup_Unclipped(x, total_steps) == x

\* dda.c 375-377: a move too short for both ramps gets them clipped
ClipRampup(x, total_steps) ==
    IF 2 * x > total_steps THEN total_steps \div 2 ELSE x

\* the relative-E reset left out
StartpointAfter_KeepE(target) == target

\* dda.c 398-403: the next dda starts where this one finishes
StartpointAfter(target) ==
    IF E_ABSOLUTE = 1 THEN target ELSE [target EXCEPT !.E = 0]

\* the record marked running when it is planned
ClearFlags_SetLive(dda) ==
    [dda EXCEPT !.nullmove = 0, !.live = 1, !.x_direction = 0,
                !.y_direction = 0, !.z_direction = 0, !.e_direction = 0]

\* dda.c 87: allflags = 0 clears nullmove, live and the direction bits
ClearFlags(dda) ==
    [dda EXCEPT !.nullmove = 0, !.live = 0, !.x_direction = 0,
                !.y_direction = 0, !.z_direction = 0, !.e_direction = 0]

\* the planner enabling the Z driver along with the others
EnableForMove_WithZ(h) ==
    [h EXCEPT !.power = 1, !.x_en = 1, !.y_en = 1, !.z_en = 1, !.e_en = 1]

\* dda.c 128-134: get steppers ready to go (Z is enabled in dda_start)
EnableForMove(h) ==
    [h EXCEPT !.power = 1, !.x_en = 1, !.y_en = 1, !.e_en = 1]

NoTrace == [distance |-> 0, e_feed |-> 0, c_limit |-> 0, x |-> 0]

\* dda.c 79-404.  slot is the movebuffer entry that is overwritten; the
\* timing fields of a null move are never written and never read.
dda_create(slot, sp, h, target) ==
    LET x_delta == labs(target.X - sp.X)
        y_delta == labs(target.Y - sp.Y)
        z_delta == labs(target.Z - sp.Z)
        e_delta == labs(target.E - sp.E)
        total_steps == TotalSteps(x_delta, y_delta, z_delta, e_delta)
        base == [ClearFlags(slot) EXCEPT
                    !.endpoint = target,
                    !.x_delta = x_delta, !.y_delta = y_delta,
                    !.z_delta = z_delta, !.e_delta = e_delta,
                    !.x_direction = IF target.X >= sp.X THEN 1 ELSE 0,
                    !.y_direction = IF target.Y >= sp.Y THEN 1 ELSE 0,
                    !.z_direction = IF target.Z >= sp.Z THEN 1 ELSE 0,
                    !.e_direction = IF target.E >= sp.E THEN 1 ELSE 0,
                    !.total_steps = total_steps]
    IN  IF total_steps = 0
          THEN [dda |-> [base EXCEPT !.nullmove = 1],
                startpoint |-> StartpointAfter(target),
                hw |-> h,
                trace |-> NoTrace]
          ELSE LET e_feed == STEPS_TO_UM_E(e_delta)
                   distance == FoldEFeed(PlanarDistance(x_delta, y_delta, z_delta), e_feed)
                   c_limit == CLimit(x_delta, y_delta, z_delta, e_delta,
                                     total_steps, distance, target.F)
                   x == RampLength(c_limit, distance, total_steps)
                   rampup_steps == ClipRampup(x, total_steps)
               IN  [dda |-> [base EXCEPT
                                !.c0 = InitialPeriod(total_steps, distance),
                                !.c_min = Shl(c_limit, 8),
                                !.rampup_steps = rampup_steps,
                                !.rampdown_steps = total_steps - rampup_steps],
                    startpoint |-> StartpointAfter(target),
                    hw |-> EnableForMove(h),
                    trace |-> [distance |-> distance, e_feed |-> e_feed,
                               c_limit |-> c_limit, x |-> x]]


(***************************************************************************)
(* dda_start: the move activator.                                          *)
(***************************************************************************)
\* the floor left out: the delay follows the step period alone
TimerDelay_NoFloor(dda, ms) == Shr(ms.c, 8)

\* dda.c 456-461 and 621-628: the delay handed to setTimer
TimerDelay(dda, ms) ==
    IF dda.c_min > ms.c THEN Shr(dda.c_min, 8) ELSE Shr(ms.c, 8)

\* the counters started half a total_steps above zero: the negation left out
StartState_NotNegated(dda, ms) ==
    [ms EXCEPT
        !.x_counter = Shr(dda.total_steps, 1),
        !.y_counter = Shr(dda.total_steps, 1),
        !.z_counter = Shr(dda.total_steps, 1),
        !.e_counter = Shr(dda.total_steps, 1),
        !.x_steps = dda.x_delta, !.y_steps = dda.y_delta,
        !.z_steps = dda.z_delta, !.e_steps = dda.e_delta,
        !.step_no = 0,
        !.c = dda.c0]

\* the counters started a whole total_steps below zero
StartState_FullCounter(dda, ms) ==
    [ms EXCEPT
        !.x_counter = -dda.total_steps, !.y_counter = -dda.total_steps,
        !.z_counter = -dda.total_steps, !.e_counter = -dda.total_steps,
        !.x_steps = dda.x_delta, !.y_steps = dda.y_delta,
        !.z_steps = dda.z_delta, !.e_steps = dda.e_delta,
        !.step_no = 0,
        !.c = dda.c0]

\* dda.c 441-451: initialise the state variable
StartState(dda, ms) ==
    [ms EXCEPT
        !.x_counter = -Shr(dda.total_steps, 1),
        !.y_counter = -Shr(dda.total_steps, 1),
        !.z_counter = -Shr(dda.total_steps, 1),
        !.e_counter = -Shr(dda.total_steps, 1),
        !.x_steps = dda.x_delta, !.y_steps = dda.y_delta,
        !.z_steps = dda.z_delta, !.e_steps = dda.e_delta,
        !.step_no = 0,
        !.c = dda.c0]

\* the Z driver enabled for every move
StartOutputs_ZAlways(dda, h) ==
    [h EXCEPT
        !.z_en = 1,
        !.x_dir = dda.x_direction, !.y_dir = dda.y_direction,
        !.z_dir = dda.z_direction, !.e_dir = dda.e_direction]

\* dda.c 426-434: Z driver and direction outputs
StartOutputs(dda, h) ==
    [h EXCEPT
        !.z_en = IF dda.z_delta # 0 THEN 1 ELSE h.z_en,
        !.x_dir = dda.x_direction, !.y_dir = dda.y_direction,
        !.z_dir = dda.z_direction, !.e_dir = dda.e_direction]

\* dda.c 419-423: a null move only changes speed
StartNullMove(dda, ms, cp, h) ==
    [dda |-> dda,
     move_state |-> ms,
     current_position |-> [cp EXCEPT !.F = dda.endpoint.F],
     hw |-> h,
     timer_set |-> FALSE]

\* dda.c 424-465
StartMove(dda, ms, cp, h) ==
    LET ms1 == StartState(dda, ms)
    IN  [dda |-> [dda EXCEPT !.live = 1],
         move_state |-> ms1,
         current_position |-> cp,
         hw |-> [StartOutputs(dda, h) EXCEPT !.timer = TimerDelay(dda, ms1)],
         timer_set |-> TRUE]

\* the nullmove test left out
dda_start_NoNullTest(dda, ms, cp, h) == StartMove(dda, ms, cp, h)

\* dda.c 417-466
dda_start(dda, ms, cp, h) ==
    IF dda.nullmove = 1 THEN StartNullMove(dda, ms, cp, h)
    ELSE StartMove(dda, ms, cp, h)

(***************************************************************************)
(* dda_step: the step interrupt body.                                      *)
(***************************************************************************)
\* the test for remaining steps left out
AxisStep_NoRemainingTest(counter, steps, delta, total_steps) ==
    LET c1 == counter - delta
    IN  IF c1 < 0
          THEN [counter |-> c1 + total_steps,
                steps |-> IF steps > 0 THEN steps - 1 ELSE 0, stepped |-> 1]
          ELSE [counter |-> c1, steps |-> steps, stepped |-> 0]

\* the decrement of the remaining steps left out
AxisStep_NoDecrement(counter, steps, delta, total_steps) ==
    IF steps # 0
      THEN LET c1 == counter - delta
           IN  IF c1 < 0
                 THEN [counter |-> c1 + total_steps, steps |-> steps, stepped |-> 1]
                 ELSE [counter |-> c1, steps |-> steps, stepped |-> 0]
      ELSE [counter |-> counter, steps |-> steps, stepped |-> 0]

\* the counter reloaded with twice total_steps
AxisStep_DoubleReload(counter, steps, delta, total_steps) ==
    IF steps # 0
      THEN LET c1 == counter - delta
           IN  IF c1 < 0
                 THEN [counter |-> c1 + 2 * total_steps, steps |-> steps - 1,
                       stepped |-> 1]
                 ELSE [counter |-> c1, steps |-> steps, stepped |-> 0]
      ELSE [counter |-> counter, steps |-> steps, stepped |-> 0]

\* dda.c 483-492 (and the same for Y, Z, E): one axis of the Bresenham
AxisStep(counter, steps, delta, total_steps) ==
    IF steps # 0
      THEN LET c1 == counter - delta
           IN  IF c1 < 0
                 THEN [counter |-> c1 + total_steps, steps |-> steps - 1, stepped |-> 1]
                 ELSE [counter |-> c1, steps |-> steps, stepped |-> 0]
      ELSE [counter |-> counter, steps |-> steps, stepped |-> 0]

\* dda.c 481-524: the pulses of this tick
StepPulses(dda, ms) ==
    LET ax == AxisStep(ms.x_counter, ms.x_steps, dda.x_delta, dda.total_steps)
        ay == AxisStep(ms.y_counter, ms.y_steps, dda.y_delta, dda.total_steps)
        az == AxisStep(ms.z_counter, ms.z_steps, dda.z_delta, dda.total_steps)
        ae == AxisStep(ms.e_counter, ms.e_steps, dda.e_delta, dda.total_steps)
    IN  [move_state |-> [ms EXCEPT
                            !.x_counter = ax.counter, !.x_steps = ax.steps,
                            !.y_counter = ay.counter, !.y_steps = ay.steps,
                            !.z_counter = az.counter, !.z_steps = az.steps,
                            !.e_counter = ae.counter, !.e_steps = ae.steps],
         stepped |-> [X |-> ax.stepped, Y |-> ay.stepped,
                      Z |-> az.stepped, E |-> ae.stepped],
         did_step |-> IF ax.stepped + ay.stepped + az.stepped + ae.stepped > 0
                        THEN 1 ELSE 0]

\* dda.c 572: still on the way up
Accelerating(dda, ms) == ms.step_no < dda.rampup_steps

\* dda.c 577: past the step at which the ramp down starts
Decelerating(dda, ms) ==
    ~Accelerating(dda, ms) /\ ms.step_no > dda.rampdown_steps

\* the correction of a wrong ramp direction left out
RampStep_NoFlip(dda, ms) ==
    LET up == ms.step_no < dda.rampup_steps
        down == ~up /\ ms.step_no > dda.rampdown_steps
        n1 == ms.n + 4
    IN  IF up \/ down
          THEN [ms EXCEPT !.n = n1,
                          !.c = ms.c - CDiv(ms.c * 2, n1),
                          !.step_no = ms.step_no + 1]
          ELSE [ms EXCEPT !.step_no = ms.step_no + 1]

\* dda.c 571-587: the ramp recurrence and the step number
RampStep(dda, ms) ==
    LET up == Accelerating(dda, ms)
        down == Decelerating(dda, ms)
        n0 == IF (up /\ ms.n < 0) \/ (down /\ ms.n > 0) THEN -2 - ms.n ELSE ms.n
        n1 == n0 + 4
    IN  IF up \/ down
          THEN [ms EXCEPT !.n = n1,
                          !.c = ms.c - CDiv(ms.c * 2, n1),
                          !.step_no = ms.step_no + 1]
          ELSE [ms EXCEPT !.step_no = ms.step_no + 1]

\* completion taken on the tick of the last pulse
MoveFinished_IgnoreDidStep(did_step, ms) ==
    ms.x_steps = 0 /\ ms.y_steps = 0 /\ ms.z_steps = 0 /\ ms.e_steps = 0

\* dda.c 596-603: nothing stepped and nothing is left to step
MoveFinished(did_step, ms) ==
    /\ did_step = 0
    /\ ms.x_steps = 0 /\ ms.y_steps = 0 /\ ms.z_steps = 0 /\ ms.e_steps = 0

\* the Z driver left enabled when the record dies
FinishMove_KeepZ(dda, cp, h) ==
    [dda |-> [dda EXCEPT !.live = 0],
     current_position |->
        IF E_ABSOLUTE = 1 THEN [cp EXCEPT !.F = dda.endpoint.F]
        ELSE [cp EXCEPT !.E = 0, !.F = dda.endpoint.F],
     hw |-> h]

\* dda.c 604-616: the record dies
FinishMove(dda, cp, h) ==
    [dda |-> [dda EXCEPT !.live = 0],
     current_position |->
        IF E_ABSOLUTE = 1 THEN [cp EXCEPT !.F = dda.endpoint.F]
        ELSE [cp EXCEPT !.E = 0, !.F = dda.endpoint.F],
     hw |-> [h EXCEPT !.z_en = 0]]

\* dda.c 595-617
DetectFinish(did_step, dda, ms, cp, h) ==
    IF MoveFinished(did_step, ms) THEN FinishMove(dda, cp, h)
    ELSE [dda |-> dda, current_position |-> cp, hw |-> h]

\* dda.c 636: unstep()
Unstep(h) ==
    [h EXCEPT !.x_stp = 0, !.y_stp = 0, !.z_stp = 0, !.e_stp = 0]

\* dda.c 487, 498, 509, 519: x_step() .. e_step() raise the step pins
RaiseSteps(h, stepped) ==
    [h EXCEPT !.x_stp = IF stepped.X = 1 THEN 1 ELSE h.x_stp,
              !.y_stp = IF stepped.Y = 1 THEN 1 ELSE h.y_stp,
              !.z_stp = IF stepped.Z = 1 THEN 1 ELSE h.z_stp,
              !.e_stp = IF stepped.E = 1 THEN 1 ELSE h.e_stp]

\* dda.c 619-636: cli(), setTimer(), unstep()
StepEpilogue(dda, ms, h) ==
    Unstep([h EXCEPT !.timer = TimerDelay(dda, ms)])

\* dda.c 480-637, run without interruption: the pulses, then the ramp,
\* then the completion test, then timer and unstep.  The result is the
\* one-element set of outcomes; each phase's value is bound once.
dda_step(dda, ms, cp, h) ==
    LET Finish(p, ms1) ==
            {[dda |-> f.dda,
              move_state |-> ms1,
              current_position |-> f.current_position,
              hw |-> StepEpilogue(dda, ms1, f.hw),
              stepped |-> p.stepped] :
                f \in {DetectFinish(p.did_step, dda, ms1, cp,
                                    RaiseSteps(h, p.stepped))}}
        Ramp(p) ==
            UNION {Finish(p, ms1) : ms1 \in {RampStep(dda, p.move_state)}}
    IN  UNION {Ramp(p) : p \in {StepPulses(dda, ms)}}

(***************************************************************************)
(* update_position: the position tracker.                                  *)
(***************************************************************************)
\* the direction flags ignored
TrackedPosition_IgnoreDirection(dda, ms, cp) ==
    [cp EXCEPT
        !.X = dda.endpoint.X - ms.x_steps,
        !.Y = dda.endpoint.Y - ms.y_steps,
        !.Z = dda.endpoint.Z - ms.z_steps,
        !.E = ms.e_steps]

\* dda.c 646-668
TrackedPosition(dda, ms, cp) ==
    [cp EXCEPT
        !.X = IF dda.x_direction = 1 THEN dda.endpoint.X - ms.x_steps
              ELSE dda.endpoint.X + ms.x_steps,
        !.Y = IF dda.y_direction = 1 THEN dda.endpoint.Y - ms.y_steps
              ELSE dda.endpoint.Y + ms.y_steps,
        !.Z = IF dda.z_direction = 1 THEN dda.endpoint.Z - ms.z_steps
              ELSE dda.endpoint.Z + ms.z_steps,
        !.E = IF E_ABSOLUTE = 1
                THEN (IF dda.e_direction = 1 THEN dda.endpoint.E - ms.e_steps
                      ELSE dda.endpoint.E + ms.e_steps)
                ELSE ms.e_steps]

\* the test of live left out
update_position_NoLiveTest(dda, ms, cp) == TrackedPosition(dda, ms, cp)

\* dda.c 640-669
update_position(dda, ms, cp) ==
    IF dda.live = 0 THEN cp ELSE TrackedPosition(dda, ms, cp)


\* what update_position has read so far: pc is the axis it reads next,
\* dda the record it holds a pointer to, move the number of that record's
\* activation, same whether move_state still belonged to that activation
\* at every read, t0 and t1 the ticks at its first and its latest read,
\* before and after the machine's position at those two reads, wrote the
\* values stored into current_position
UpdIdle ==
    [pc |-> "idle", dda |-> ZeroDDA, move |-> 0, same |-> TRUE,
     t0 |-> 0, t1 |-> 0,
     before |-> ZeroPulses, after |-> ZeroPulses, wrote |-> ZeroPulses]

\* the tick t recorded for every axis that pulsed on it
MarkSteps(last, stepped, t) ==
    [X |-> IF stepped.X = 1 THEN t ELSE last.X,
     Y |-> IF stepped.Y = 1 THEN t ELSE last.Y,
     Z |-> IF stepped.Z = 1 THEN t ELSE last.Z,
     E |-> IF stepped.E = 1 THEN t ELSE last.E]

\* no speed recalculation counted yet
ZeroRecalcs == [up |-> 0, down |-> 0]

\* dda.c 572-581: the branch of the ramp code this invocation takes is
\* counted
CountRecalcs(rc, dda, ms) ==
    [up |-> rc.up + IF Accelerating(dda, ms) THEN 1 ELSE 0,
     down |-> rc.down + IF Decelerating(dda, ms) THEN 1 ELSE 0]

(***************************************************************************)
(* Initial state: .bss cleared, then dda_init.                             *)
(***************************************************************************)
\* dda.c 48-65
dda_init_position == [ZeroTarget EXCEPT !.F = SEARCH_FEEDRATE_Z]

\* dda.c 52-55
dda_init_move_state ==
    [x_counter |-> 0, y_counter |-> 0, z_counter |-> 0, e_counter |-> 0,
     x_steps |-> 0, y_steps |-> 0, z_steps |-> 0, e_steps |-> 0,
     step_no |-> 0, c |-> 2500, n |-> 1]

HwInit ==
    [power |-> 0, x_en |-> 0, y_en |-> 0, z_en |-> 0, e_en |-> 0,
     x_dir |-> 0, y_dir |-> 0, z_dir |-> 0, e_dir |-> 0,
     x_stp |-> 0, y_stp |-> 0, z_stp |-> 0, e_stp |-> 0,
     timer |-> 0]

Init ==
    /\ startpoint = dda_init_position
    /\ current_position = dda_init_position
    /\ move_state = dda_init_move_state
    /\ movebuffer = <<ZeroDDA>>
    /\ hw = HwInit
    /\ pulses = ZeroPulses
    /\ ticks = 0
    /\ plan_trace = NoTrace
    /\ planned = 0
    /\ iflag = TRUE
    /\ timer_en = FALSE
    /\ isr = <<>>
    /\ last_step = ZeroPulses
    /\ upd = UpdIdle
    /\ recalcs = ZeroRecalcs

(***************************************************************************)
(* The queue around the DDA: a FIFO of planned records behind the record   *)
(* at mb_tail.                                                             *)
(***************************************************************************)
\* the record at mb_tail
CurrentDDA == Head(movebuffer)

queue_empty == Len(movebuffer) = 1

queue_full ==
    \/ Len(movebuffer) >= MOVEBUFFER_SIZE
    \/ Len(movebuffer) - 1 >= MaxPending

\* the queue hands the next record to dda_start only when the record at
\* mb_tail is not live
CanActivate == ~queue_empty /\ CurrentDDA.live = 0

AddPulses(p, stepped) ==
    [X |-> p.X + stepped.X, Y |-> p.Y + stepped.Y,
     Z |-> p.Z + stepped.Z, E |-> p.E + stepped.E]

(***************************************************************************)
(* Actions, each handler atomic.  Foreground code runs only while no step  *)
(* interrupt is in progress.                                               *)
(***************************************************************************)
\* setTimer(delay) arms the step timer interrupt, setTimer(0) stops it
TimerArmed(h) == h.timer # 0

\* the planner also initialising the step counters for the record it plans
Enqueue_ResetMoveState(target) ==
    /\ ~queue_full
    /\ planned < MaxMoves
    /\ isr = <<>>
    /\ \E r \in {dda_create(ZeroDDA, startpoint, hw, target)} :
           /\ movebuffer' = Append(movebuffer, r.dda)
           /\ startpoint' = r.startpoint
           /\ hw' = r.hw
           /\ plan_trace' = r.trace
           /\ move_state' = StartState(r.dda, move_state)
    /\ planned' = planned + 1
    /\ UNCHANGED <<current_position, pulses, ticks,
                   iflag, timer_en, isr,
                   last_step, upd, recalcs>>

\* enqueue: plan a move into the next free slot
Enqueue(target) ==
    /\ ~queue_full
    /\ planned < MaxMoves
    /\ isr = <<>>
    /\ \E r \in {dda_create(ZeroDDA, startpoint, hw, target)} :
           /\ movebuffer' = Append(movebuffer, r.dda)
           /\ startpoint' = r.startpoint
           /\ hw' = r.hw
           /\ plan_trace' = r.trace
    /\ planned' = planned + 1
    /\ UNCHANGED <<current_position, move_state, pulses, ticks,
                   iflag, timer_en, isr,
                   last_step, upd, recalcs>>

\* next_move: activate the oldest planned record
NextMove ==
    /\ CanActivate
    /\ \E r \in {dda_start(movebuffer[2], move_state, current_position, hw)} :
           /\ movebuffer' = <<r.dda>> \o SubSeq(movebuffer, 3, Len(movebuffer))
           /\ move_state' = r.move_state
           /\ current_position' = r.current_position
           /\ hw' = r.hw
           /\ timer_en' = IF r.timer_set THEN TimerArmed(r.hw) ELSE timer_en
    /\ pulses' = ZeroPulses
    /\ ticks' = 0
    /\ last_step' = ZeroPulses
    /\ recalcs' = ZeroRecalcs
    /\ UNCHANGED <<startpoint, plan_trace, planned, upd>>

\* next_move called from foreground, after enqueue
StartFromForeground ==
    /\ isr = <<>>
    /\ NextMove
    /\ UNCHANGED <<iflag, isr>>

\* the step timer fires: one whole dda_step; cap bounds the invocations
\* followed per record
Tick(cap) ==
    /\ isr = <<>>
    /\ CurrentDDA.live = 1
    /\ ticks < cap
    /\ \E r \in dda_step(CurrentDDA, move_state, current_position, hw) :
           /\ movebuffer' = <<r.dda>> \o Tail(movebuffer)
           /\ move_state' = r.move_state
           /\ current_position' = r.current_position
           /\ hw' = r.hw
           /\ timer_en' = TimerArmed(r.hw)
           /\ pulses' = AddPulses(pulses, r.stepped)
           /\ last_step' = MarkSteps(last_step, r.stepped, ticks + 1)
    /\ recalcs' = CountRecalcs(recalcs, CurrentDDA, move_state)
    /\ ticks' = ticks + 1
    /\ UNCHANGED <<startpoint, plan_trace, planned, iflag, isr, upd>>

QueueStep == Tick(MaxTicks)

\* foreground asks for the current position
UpdatePosition ==
    /\ isr = <<>>
    /\ current_position' = update_position(CurrentDDA, move_state, current_position)
    /\ UNCHANGED <<startpoint, move_state, movebuffer, hw, pulses, ticks,
                   plan_trace, planned, iflag, timer_en, isr,
                   last_step, upd, recalcs>>

DoEnqueue == \E target \in Targets : Enqueue(target)

Next ==
    \/ DoEnqueue
    \/ StartFromForeground
    \/ QueueStep
    \/ UpdatePosition

Spec == Init /\ [][Next]_vars

\* the step timer keeps firing while a record is live
SpecFair == Spec /\ WF_vars(QueueStep)

(***************************************************************************)
(* The step interrupt in detail: dda_step runs in the timer interrupt,     *)
(* split where it changes the global interrupt flag.  isr holds one frame  *)
(* per interrupt invocation in progress, the newest first.                 *)
(***************************************************************************)
\* sei() left out: the whole handler runs with interrupts disabled
FlagAfterSei_Missing(flag) == flag

\* the interrupt flag after dda.c 526-532: sei() in the interruptible build
FlagAfterSei(flag) == IF STEP_INTERRUPT_INTERRUPTIBLE = 1 THEN TRUE ELSE flag

\* cli() left out
FlagAfterCli_Missing(flag) == flag

\* the interrupt flag after dda.c 619: cli()
FlagAfterCli(flag) == FALSE

Frame(pc, did_step) == [pc |-> pc, did_step |-> did_step]

AtPC(pc) == isr # <<>> /\ Head(isr).pc = pc

Goto(pc) == isr' = <<[Head(isr) EXCEPT !.pc = pc]>> \o Tail(isr)

\* the timer compare interrupt is taken: the hardware clears the interrupt
\* flag, the handler disables its own interrupt and calls queue_step,
\* which runs dda_step when the record at mb_tail is live
TimerFire ==
    /\ iflag /\ timer_en
    /\ Len(isr) < MaxNest
    /\ ticks < MaxTicks
    /\ iflag' = FALSE
    /\ timer_en' = FALSE
    /\ isr' = <<Frame(IF CurrentDDA.live = 1 THEN "pulses" ELSE "return", 0)>> \o isr
    /\ UNCHANGED <<startpoint, current_position, move_state, movebuffer, hw,
                   pulses, ticks, plan_trace, planned,
                   last_step, upd, recalcs>>

\* dda.c 481-524
ISR_Pulses ==
    /\ AtPC("pulses")
    /\ \E p \in {StepPulses(CurrentDDA, move_state)} :
           /\ move_state' = p.move_state
           /\ hw' = RaiseSteps(hw, p.stepped)
           /\ pulses' = AddPulses(pulses, p.stepped)
           /\ last_step' = MarkSteps(last_step, p.stepped, ticks + 1)
           /\ isr' = <<Frame("sei", p.did_step)>> \o Tail(isr)
    /\ ticks' = ticks + 1
    /\ UNCHANGED <<startpoint, current_position, movebuffer, plan_trace,
                   planned, iflag, timer_en, upd, recalcs>>

\* dda.c 526-532
ISR_Sei ==
    /\ AtPC("sei")
    /\ iflag' = FlagAfterSei(iflag)
    /\ Goto("ramp")
    /\ UNCHANGED <<startpoint, current_position, move_state, movebuffer, hw,
                   pulses, ticks, plan_trace, planned, timer_en,
                   last_step, upd, recalcs>>

\* dda.c 561-593
ISR_Ramp ==
    /\ AtPC("ramp")
    /\ move_state' = RampStep(CurrentDDA, move_state)
    /\ recalcs' = CountRecalcs(recalcs, CurrentDDA, move_state)
    /\ Goto("finish")
    /\ UNCHANGED <<startpoint, current_position, movebuffer, hw, pulses,
                   ticks, plan_trace, planned, iflag, timer_en,
                   last_step, upd>>

\* dda.c 595-617
ISR_DetectFinish ==
    /\ AtPC("finish")
    /\ \E f \in {DetectFinish(Head(isr).did_step, CurrentDDA, move_state,
                              current_position, hw)} :
           /\ movebuffer' = <<f.dda>> \o Tail(movebuffer)
           /\ current_position' = f.current_position
           /\ hw' = f.hw
    /\ Goto("cli")
    /\ UNCHANGED <<startpoint, move_state, pulses, ticks, plan_trace,
                   planned, iflag, timer_en,
                   last_step, upd, recalcs>>

\* dda.c 619
ISR_Cli ==
    /\ AtPC("cli")
    /\ iflag' = FlagAfterCli(iflag)
    /\ Goto("settimer")
    /\ UNCHANGED <<startpoint, current_position, move_state, movebuffer, hw,
                   pulses, ticks, plan_trace, planned, timer_en,
                   last_step, upd, recalcs>>

\* dda.c 621-631
ISR_SetTimer ==
    /\ AtPC("settimer")
    /\ hw' = [hw EXCEPT !.timer = TimerDelay(CurrentDDA, move_state)]
    /\ timer_en' = TimerArmed(hw')
    /\ Goto("unstep")
    /\ UNCHANGED <<startpoint, current_position, move_state, movebuffer,
                   pulses, ticks, plan_trace, planned, iflag,
                   last_step, upd, recalcs>>

\* dda.c 636
ISR_Unstep ==
    /\ AtPC("unstep")
    /\ hw' = Unstep(hw)
    /\ Goto("return")
    /\ UNCHANGED <<startpoint, current_position, move_state, movebuffer,
                   pulses, ticks, plan_trace, planned, iflag, timer_en,
                   last_step, upd, recalcs>>

\* back in queue_step with the record still live: return from interrupt
ISR_Return ==
    /\ AtPC("return")
    /\ CurrentDDA.live = 1
    /\ isr' = Tail(isr)
    /\ iflag' = TRUE
    /\ UNCHANGED <<startpoint, current_position, move_state, movebuffer, hw,
                   pulses, ticks, plan_trace, planned, timer_en,
                   last_step, upd, recalcs>>

\* back in queue_step with the record dead: next_move starts the next
\* planned record, then return from interrupt
ISR_NextMove ==
    /\ AtPC("return")
    /\ NextMove
    /\ isr' = Tail(isr)
    /\ iflag' = TRUE

\* back in queue_step with the record dead and nothing planned: next_move
\* stops the timer with setTimer(0), then return from interrupt
ISR_QueueEmpty ==
    /\ AtPC("return")
    /\ CurrentDDA.live = 0
    /\ queue_empty
    /\ hw' = [hw EXCEPT !.timer = 0]
    /\ timer_en' = FALSE
    /\ isr' = Tail(isr)
    /\ iflag' = TRUE
    /\ UNCHANGED <<startpoint, current_position, move_state, movebuffer,
                   pulses, ticks, plan_trace, planned,
                   last_step, upd, recalcs>>

NextISR ==
    \/ DoEnqueue
    \/ StartFromForeground
    \/ UpdatePosition
    \/ TimerFire
    \/ ISR_Pulses
    \/ ISR_Sei
    \/ ISR_Ramp
    \/ ISR_DetectFinish
    \/ ISR_Cli
    \/ ISR_SetTimer
    \/ ISR_Unstep
    \/ ISR_Return
    \/ ISR_NextMove
    \/ ISR_QueueEmpty

SpecISR == Init /\ [][NextISR]_vars

(***************************************************************************)
(* update_position without a barrier: the foreground reads the four        *)
(* remaining-step counts one after the other and stores each result into   *)
(* current_position at once; the step interrupt may run between any two    *)
(* of the reads.  A 32-bit count is read byte by byte on this 8-bit CPU;    *)
(* for counts below 256, as here, every byte interleaving returns the      *)
(* count before or the count after the interrupt.                          *)
(***************************************************************************)
\* the number of records activated so far
Activated == planned - (Len(movebuffer) - 1)

\* the position the counters stand for: what update_position would compute
\* from one consistent reading
MachinePosition(dda, ms) ==
    LET p == TrackedPosition(dda, ms, ZeroTarget)
    IN  [X |-> p.X, Y |-> p.Y, Z |-> p.Z, E |-> p.E]

NextAxis(a) ==
    CASE a = "X" -> "Y" [] a = "Y" -> "Z" [] a = "Z" -> "E" [] OTHER -> "done"

\* dda.c 641-644: take the pointer, return unless the record is live
UP_Enter ==
    /\ upd.pc = "idle"
    /\ isr = <<>>
    /\ CurrentDDA.live = 1
    /\ upd' = [UpdIdle EXCEPT !.pc = "X", !.dda = CurrentDDA, !.move = Activated]
    /\ UNCHANGED <<startpoint, current_position, move_state, movebuffer, hw,
                   pulses, ticks, plan_trace, planned, iflag, timer_en, isr,
                   last_step, recalcs>>

\* dda.c 646-668: one axis is read and stored
UP_Read(a) ==
    /\ upd.pc = a
    /\ \E v \in {TrackedPosition(upd.dda, move_state, current_position)[a]},
          m \in {MachinePosition(upd.dda, move_state)} :
           /\ current_position' = [current_position EXCEPT ![a] = v]
           /\ upd' = [upd EXCEPT
                         !.pc = NextAxis(a),
                         !.same = IF a = "X" THEN Activated = upd.move
                                  ELSE upd.same /\ Activated = upd.move,
                         !.t0 = IF a = "X" THEN ticks ELSE upd.t0,
                         !.before = IF a = "X" THEN m ELSE upd.before,
                         !.t1 = ticks,
                         !.after = m,
                         !.wrote = [upd.wrote EXCEPT ![a] = v]]
    /\ UNCHANGED <<startpoint, move_state, movebuffer, hw, pulses, ticks,
                   plan_trace, planned, iflag, timer_en, isr, last_step, recalcs>>

UP_ReadAxis == \E a \in {"X", "Y", "Z", "E"} : UP_Read(a)

\* dda.c 669
UP_Return ==
    /\ upd.pc = "done"
    /\ upd' = UpdIdle
    /\ UNCHANGED <<startpoint, current_position, move_state, movebuffer, hw,
                   pulses, ticks, plan_trace, planned, iflag, timer_en, isr,
                   last_step, recalcs>>

\* enqueue is foreground code, as update_position is
TornEnqueue == upd.pc = "idle" /\ DoEnqueue

NextTorn ==
    \/ TornEnqueue
    \/ StartFromForeground
    \/ QueueStep
    \/ UP_Enter
    \/ UP_ReadAxis
    \/ UP_Return

SpecTorn == Init /\ [][NextTorn]_vars

(***************************************************************************)
(* Scenarios: moves long enough to ramp and to cruise.  One long move      *)
(* (X over ScenarioLong steps, Y over half of it) runs alone; short moves  *)
(* of up to ScenarioShort steps per axis run one after the other.          *)
(***************************************************************************)
ScenarioB ==
    [X |-> ScenarioLong, Y |-> ScenarioLong \div 2, Z |-> 0, E |-> 0,
     F |-> FAST_FEEDRATE]

ShortTargets ==
    [X : {0, ScenarioShort}, Y : {0, ScenarioShortY},
     Z : {0, ScenarioShortZ}, E : {0, ScenarioShort},
     F : {MEDIUM_FEEDRATE, FAST_FEEDRATE}]

ScenarioEnqueue ==
    \/ planned = 0 /\ Enqueue(ScenarioB)
    \/ \E target \in ShortTargets :
           /\ startpoint.X <= ScenarioShort
           /\ Enqueue(target)

ScenarioStep == Tick(ScenarioMaxTicks)

NextScenario ==
    \/ ScenarioEnqueue
    \/ StartFromForeground
    \/ ScenarioStep

SpecScenario == Init /\ [][NextScenario]_vars

(***************************************************************************)
(* The build with ACCELERATION_REPRAP in place of ACCELERATION_RAMPING     *)
(* (taper mode): the record carries c, end_c, n and accel; the period      *)
(* moves from the one of the previous feed rate to the one of the target   *)
(* feed rate.  Values are kept below 2^31, so that no uint32 arithmetic    *)
(* wraps except the subtraction at dda.c 538, whose wrap is modelled.      *)
(***************************************************************************)
\* msbloc of dda_util: position of the most significant set bit
RECURSIVE msbloc(_)
msbloc(v) == IF v <= 1 THEN 0 ELSE 1 + msbloc(v \div 2)

\* dda.c 230-254 with limiting_total_clock_ticks starting at 0
CLimitReprap(x_delta, y_delta, z_delta, e_delta, total_steps) ==
    LET l1 == Max2(0, x_delta * MIN_CLOCKS_PER_STEP_X)
        l2 == Max2(l1, y_delta * MIN_CLOCKS_PER_STEP_Y)
        l3 == Max2(l2, z_delta * MIN_CLOCKS_PER_STEP_Z)
        l4 == Max2(l3, e_delta * MIN_CLOCKS_PER_STEP_E)
    IN  l4 \div total_steps

\* dda.c 273-278: the step period at feed rate F, not below c_limit
TaperPeriod(move_duration, F, c_limit) ==
    LET c == Shl(TIME_SCALING * (move_duration \div F), 8)
    IN  IF c < c_limit THEN c_limit ELSE c

\* dda.c 284-289: a quarter of the difference of the squared feed rates
TaperDsq(startF, targetF) ==
    LET stF == startF \div 4
        enF == targetF \div 4
    IN  CDiv(enF * enF - stF * stF, 4)

\* dda.c 298-315: the slope constant, for a divisor dsq that is not 0
TaperSlope(total_steps, ssq, dsq) ==
    IF msbloc(total_steps) + msbloc(ssq) <= 30
      THEN CDiv(total_steps * ssq, dsq) + 1
      ELSE IF msbloc(total_steps) >= msbloc(ssq)
        THEN CDiv(total_steps, dsq) * ssq + 1
        ELSE CDiv(ssq, dsq) * total_steps + 1

\* what n may hold after a division by zero
UndefinedSlopes == {-3, 0, 1}

\* dda.c 79-404 in the taper build: the set of possible outcomes.  trace
\* lists, besides the values of the debug report, every divisor the call
\* divided by.
dda_create_reprap(slot, sp, h, target) ==
    LET x_delta == labs(target.X - sp.X)
        y_delta == labs(target.Y - sp.Y)
        z_delta == labs(target.Z - sp.Z)
        e_delta == labs(target.E - sp.E)
        total_steps == TotalSteps(x_delta, y_delta, z_delta, e_delta)
        base == [ClearFlags(slot) EXCEPT
                    !.endpoint = target,
                    !.x_delta = x_delta, !.y_delta = y_delta,
                    !.z_delta = z_delta, !.e_delta = e_delta,
                    !.x_direction = IF target.X >= sp.X THEN 1 ELSE 0,
                    !.y_direction = IF target.Y >= sp.Y THEN 1 ELSE 0,
                    !.z_direction = IF target.Z >= sp.Z THEN 1 ELSE 0,
                    !.e_direction = IF target.E >= sp.E THEN 1 ELSE 0,
                    !.total_steps = total_steps]
        Taper0 == [c |-> 0, end_c |-> 0, n |-> 0, accel |-> 0]
    IN  IF total_steps = 0
          THEN {[dda |-> Taper0 @@ [base EXCEPT !.nullmove = 1],
                 startpoint |-> StartpointAfter(target),
                 hw |-> h,
                 trace |-> [distance |-> 0, e_feed |-> 0, c_limit |-> 0,
                            dsq |-> 0, divisors |-> {}]]}
          ELSE LET e_feed == STEPS_TO_UM_E(e_delta)
                   distance == FoldEFeed(PlanarDistance(x_delta, y_delta, z_delta), e_feed)
                   move_duration == distance * 60
                   c_limit == CLimitReprap(x_delta, y_delta, z_delta, e_delta, total_steps)
                   sqrt_arg == (1000 * ACCELERATION * total_steps) \div distance
                   c == TaperPeriod(move_duration, sp.F, c_limit)
                   end_c == TaperPeriod(move_duration, target.F, c_limit)
                   stF == sp.F \div 4
                   dsq == TaperDsq(sp.F, target.F)
                   slopes == IF c = end_c THEN {0}
                             ELSE IF dsq = 0 THEN UndefinedSlopes
                             ELSE {TaperSlope(total_steps, stF * stF, dsq)}
                   divisors == {total_steps, distance, int_sqrt(sqrt_arg),
                                sp.F, target.F}
                               \cup (IF c = end_c THEN {} ELSE {dsq})
               IN  {[dda |-> [c |-> c, end_c |-> end_c, n |-> n,
                              accel |-> IF c = end_c THEN 0 ELSE 1]
                             @@ [base EXCEPT
                                   !.c0 = InitialPeriod(total_steps, distance)],
                     startpoint |-> StartpointAfter(target),
                     hw |-> EnableForMove(h),
                     trace |-> [distance |-> distance, e_feed |-> e_feed,
                                c_limit |-> c_limit, dsq |-> dsq,
                                divisors |-> divisors]] : n \in slopes}

\* dda.c 417-466 in the taper build
dda_start_reprap(dda, ms, cp, h) ==
    IF dda.nullmove = 1 THEN StartNullMove(dda, ms, cp, h)
    ELSE [dda |-> [dda EXCEPT !.live = 1],
          move_state |-> [StartState(dda, ms) EXCEPT !.step_no = ms.step_no],
          current_position |-> cp,
          hw |-> [StartOutputs(dda, h) EXCEPT !.timer = Shr(dda.c, 8)],
          timer_set |-> TRUE]

\* the clamp to end_c left out
TaperStep_NoClamp(dda) ==
    IF dda.accel = 1 /\ dda.c > dda.end_c /\ dda.n > 0
      THEN [dda EXCEPT !.c = Max2(0, dda.c - (dda.c * 2) \div dda.n),
                       !.n = dda.n + 4]
      ELSE IF dda.accel = 1 /\ dda.c < dda.end_c /\ dda.n < 0
        THEN [dda EXCEPT !.c = dda.c + (dda.c * 2) \div (-dda.n),
                         !.n = dda.n + 4]
        ELSE dda

\* dda.c 534-560: the period is nudged toward end_c.  new_c is a uint32:
\* a difference below 0 wraps to a value above c and fails the first test.
TaperStep(dda) ==
    IF dda.accel = 0 THEN dda
    ELSE IF dda.c > dda.end_c /\ dda.n > 0
      THEN LET new_c == dda.c - (dda.c * 2) \div dda.n
           IN  IF new_c >= 0 /\ new_c <= dda.c /\ new_c > dda.end_c
                 THEN [dda EXCEPT !.c = new_c, !.n = dda.n + 4]
                 ELSE [dda EXCEPT !.c = dda.end_c]
    ELSE IF dda.c < dda.end_c /\ dda.n < 0
      THEN LET new_c == dda.c + (dda.c * 2) \div (-dda.n)
           IN  IF new_c >= dda.c /\ new_c < dda.end_c
                 THEN [dda EXCEPT !.c = new_c, !.n = dda.n + 4]
                 ELSE [dda EXCEPT !.c = dda.end_c]
    ELSE IF dda.c # dda.end_c THEN [dda EXCEPT !.c = dda.end_c]
    ELSE dda

\* the divisors of dda.c 538 and 547, when they are reached
TaperStepDivisors(dda) ==
    IF dda.accel = 1 /\ dda.c > dda.end_c /\ dda.n > 0 THEN {dda.n}
    ELSE IF dda.accel = 1 /\ dda.c < dda.end_c /\ dda.n < 0 THEN {-dda.n}
    ELSE {}

\* dda.c 480-637 in the taper build, as a one-element set
dda_step_reprap(dda, ms, cp, h) ==
    {[dda |-> f.dda,
      move_state |-> p.move_state,
      current_position |-> f.current_position,
      hw |-> Unstep([f.hw EXCEPT !.timer = Shr(f.dda.c, 8)]),
      stepped |-> p.stepped] :
        p \in {StepPulses(dda, ms)},
        f \in {DetectFinish(StepPulses(dda, ms).did_step, TaperStep(dda),
                            StepPulses(dda, ms).move_state, cp,
                            RaiseSteps(h, StepPulses(dda, ms).stepped))}}

ReprapFeedrates ==
    {SLOWER_FEEDRATE, SEARCH_FEEDRATE_Z, MEDIUM_FEEDRATE, HIGHER_FEEDRATE}

ReprapTargets ==
    [X : {0, ScenarioShort}, Y : {0, ScenarioShortY}, Z : {0},
     E : {0, ReprapShortE, ScenarioShort}, F : ReprapFeedrates]

ReprapEnqueue ==
    \E target \in ReprapTargets :
        /\ ~queue_full
        /\ planned < MaxMoves
        /\ \E r \in dda_create_reprap(ZeroDDA, startpoint, hw, target) :
               /\ movebuffer' = Append(movebuffer, r.dda)
               /\ startpoint' = r.startpoint
               /\ hw' = r.hw
               /\ plan_trace' = r.trace
        /\ planned' = planned + 1
        /\ UNCHANGED <<current_position, move_state, pulses, ticks,
                       iflag, timer_en, isr, last_step, upd, recalcs>>

ReprapNextMove ==
    /\ CanActivate
    /\ \E r \in {dda_start_reprap(movebuffer[2], move_state, current_position, hw)} :
           /\ movebuffer' = <<r.dda>> \o SubSeq(movebuffer, 3, Len(movebuffer))
           /\ move_state' = r.move_state
           /\ current_position' = r.current_position
           /\ hw' = r.hw
           /\ timer_en' = IF r.timer_set THEN TimerArmed(r.hw) ELSE timer_en
    /\ pulses' = ZeroPulses
    /\ ticks' = 0
    /\ last_step' = ZeroPulses
    /\ recalcs' = ZeroRecalcs
    /\ UNCHANGED <<startpoint, plan_trace, planned, iflag, isr, upd>>

ReprapStep ==
    /\ CurrentDDA.live = 1
    /\ ticks < ScenarioMaxTicks
    /\ \E r \in dda_step_reprap(CurrentDDA, move_state, current_position, hw) :
           /\ movebuffer' = <<r.dda>> \o Tail(movebuffer)
           /\ move_state' = r.move_state
           /\ current_position' = r.current_position
           /\ hw' = r.hw
           /\ timer_en' = TimerArmed(r.hw)
           /\ pulses' = AddPulses(pulses, r.stepped)
           /\ last_step' = MarkSteps(last_step, r.stepped, ticks + 1)
    /\ ticks' = ticks + 1
    /\ UNCHANGED <<startpoint, plan_trace, planned, iflag, isr, upd, recalcs>>

NextReprap ==
    \/ ReprapEnqueue
    \/ ReprapNextMove
    \/ ReprapStep

SpecReprap == Init /\ [][NextReprap]_vars

(***************************************************************************)
(* The planner on longer moves: up to MaxMoves moves whose X, Y, Z parts   *)
(* lie at eight times the E feed and whose E parts lie just below, at and  *)
(* just above that threshold, or are a long extrusion at the fast feed     *)
(* rate, are planned and activated; no step is taken.                      *)
(***************************************************************************)
PlanTargets ==
    [X : {0, PlanX}, Y : {0, PlanX}, Z : {0, PlanZ},
     E : {0} \cup (PlanE - 1 .. PlanE + 1),
     F : {SEARCH_FEEDRATE_Z, FAST_FEEDRATE}]
    \cup
    [X : {0, PlanX}, Y : {0, PlanX}, Z : {0, PlanZ},
     E : {PlanLongE}, F : {FAST_FEEDRATE}]

PlanEnqueue == \E target \in PlanTargets : Enqueue(target)

NextPlan ==
    \/ PlanEnqueue
    \/ StartFromForeground

SpecPlan == Init /\ [][NextPlan]_vars

(***************************************************************************)
(* Properties.                                                             *)
(***************************************************************************)
\* the record planned last
LastDDA == movebuffer[Len(movebuffer)]

\* the record at mb_tail was activated, stepped, and is no longer live
Completed ==
    /\ CurrentDDA.nullmove = 0
    /\ CurrentDDA.total_steps > 0
    /\ CurrentDDA.live = 0

Deltas(dda) ==
    [X |-> dda.x_delta, Y |-> dda.y_delta, Z |-> dda.z_delta, E |-> dda.e_delta]

Axes == {"X", "Y", "Z", "E"}

\* steps taken in this behaviour step
EnqueueStep == planned' = planned + 1
NextMoveStep == Len(movebuffer') = Len(movebuffer) - 1

\* C1: a move stepped until it is no longer live has emitted, on every
\* axis, exactly as many pulses as the axis's planned delta; while it is
\* live no axis has emitted more than its delta, so an axis with delta 0
\* never pulses.
C1_PulsesEqualDelta ==
    /\ Completed => pulses = Deltas(CurrentDDA)
    /\ CurrentDDA.live = 1 =>
          \A a \in Axes : pulses[a] <= Deltas(CurrentDDA)[a]

C1_Witness ==
    /\ Completed
    /\ CurrentDDA.x_delta = 2 /\ CurrentDDA.y_delta = 1 /\ CurrentDDA.z_delta = 0
    /\ pulses.X = 2 /\ pulses.Y = 1 /\ pulses.Z = 0

\* C2: after a move completes, current_position X, Y, Z equal the
\* record's endpoint, whether or not update_position ran during the move,
\* and in relative-E mode current_position.E is 0.
C2_PositionIsEndpoint ==
    Completed =>
        /\ current_position.X = CurrentDDA.endpoint.X
        /\ current_position.Y = CurrentDDA.endpoint.Y
        /\ current_position.Z = CurrentDDA.endpoint.Z
        /\ (E_ABSOLUTE = 0 => current_position.E = 0)

\* C3: with the step timer firing fairly, every live record eventually
\* stops being live.
C3_LiveEventuallyDone ==
    (CurrentDDA.live = 1) ~> (CurrentDDA.live = 0)

C3_Witness ==
    /\ Completed
    /\ CurrentDDA.z_delta = 1 /\ CurrentDDA.e_delta = 1
    /\ ticks > 0
    /\ move_state.z_steps = 0 /\ move_state.e_steps = 0

C5_TotalStepsIsMaxDelta ==
    [][EnqueueStep =>
        LET d == LastDDA'
            dist(a) == IF d.endpoint[a] >= startpoint[a]
                         THEN d.endpoint[a] - startpoint[a]
                         ELSE startpoint[a] - d.endpoint[a]
        IN  /\ \A a \in Axes : Deltas(d)[a] = dist(a)
            /\ \A a \in Axes : d.total_steps >= dist(a)
            /\ \E a \in Axes : d.total_steps = dist(a)
            /\ (d.nullmove = 1) <=> (d.total_steps = 0)]_vars

C5_Witness ==
    /\ planned = 2
    /\ LastDDA.e_delta = 1 /\ LastDDA.x_delta = 0 /\ LastDDA.y_delta = 0
    /\ LastDDA.z_delta = 0
    /\ LastDDA.total_steps = 1
    /\ LastDDA.nullmove = 0

\* C6: every non-null record has 2 * rampup_steps <= total_steps and
\* rampdown_steps = total_steps - rampup_steps, whatever the unclipped
\* ramp length was.
C6_RampClipped ==
    \A i \in DOMAIN movebuffer :
        movebuffer[i].total_steps > 0 =>
            /\ 2 * movebuffer[i].rampup_steps <= movebuffer[i].total_steps
            /\ movebuffer[i].rampdown_steps =
                   movebuffer[i].total_steps - movebuffer[i].rampup_steps

C6_Witness ==
    /\ planned > 0
    /\ LastDDA.total_steps = 2
    /\ 2 * plan_trace.x > LastDDA.total_steps
    /\ LastDDA.rampup_steps = 1
    /\ LastDDA.rampdown_steps = 1

\* C7: at most one record of the queue is live at any instant.
C7_AtMostOneLive ==
    Cardinality({i \in DOMAIN movebuffer : movebuffer[i].live = 1}) <= 1

C7_Witness ==
    /\ CurrentDDA.live = 1
    /\ Len(movebuffer) = 2
    /\ movebuffer[2].nullmove = 0
    /\ movebuffer[2].live = 0

\* C9: a target equal to startpoint in X, Y, Z, E is planned as a null
\* move; activating a null move changes current_position.F to the record's
\* feed rate and nothing else (not live, move_state, outputs and timer
\* untouched); no pulse is emitted for it.
C9_NullMove ==
    [][/\ EnqueueStep =>
            LET d == LastDDA'
            IN  (\A a \in Axes : d.endpoint[a] = startpoint[a]) => d.nullmove = 1
       /\ (NextMoveStep /\ movebuffer[2].nullmove = 1) =>
            /\ CurrentDDA'.live = 0
            /\ CurrentDDA' = movebuffer[2]
            /\ move_state' = move_state
            /\ hw' = hw
            /\ current_position' =
                   [current_position EXCEPT !.F = movebuffer[2].endpoint.F]
       /\ CurrentDDA'.nullmove = 1 =>
            /\ CurrentDDA'.live = 0
            /\ pulses' = ZeroPulses
            /\ ticks' = 0]_vars

C9_Witness ==
    /\ planned = 1
    /\ CurrentDDA.nullmove = 1
    /\ CurrentDDA.endpoint.F = FAST_FEEDRATE
    /\ current_position.F = FAST_FEEDRATE
    /\ hw = HwInit

\* C10 as stated: after dda_create, startpoint equals target in X, Y, Z, E
\* and F.
C10_StartpointIsTarget ==
    [][EnqueueStep => startpoint' = LastDDA'.endpoint]_vars

\* C10 amended: after dda_create, for null and non-null moves alike,
\* startpoint equals target in X, Y, Z and F, and startpoint.E is 0 (the
\* extruder axis is relative in this configuration).
C10_StartpointIsTargetWithERelative ==
    [][EnqueueStep =>
        /\ startpoint'.X = LastDDA'.endpoint.X
        /\ startpoint'.Y = LastDDA'.endpoint.Y
        /\ startpoint'.Z = LastDDA'.endpoint.Z
        /\ startpoint'.F = LastDDA'.endpoint.F
        /\ startpoint'.E = 0]_vars

C10_Witness ==
    /\ planned > 0
    /\ LastDDA.endpoint.E = 1
    /\ LastDDA.endpoint.X = 2
    /\ startpoint.E = 0
    /\ startpoint.X = 2
    /\ startpoint.F = LastDDA.endpoint.F


WithinOneStepOfOneAxis(p, q) ==
    /\ Cardinality({a \in {"X", "Y", "Z", "E"} : p[a] # q[a]}) <= 1
    /\ \A a \in {"X", "Y", "Z", "E"} : p[a] - q[a] \in {-1, 0, 1}

\* C11: when exactly one tick of dda_step runs between the reads of one
\* update_position, the position written differs from the machine's
\* position before that tick, or from its position after it, by at most
\* one step on at most one axis.
C11_TornReadWithinOneAxis ==
    (upd.pc = "done" /\ upd.same /\ upd.t1 = upd.t0 + 1) =>
        \/ WithinOneStepOfOneAxis(upd.wrote, upd.before)
        \/ WithinOneStepOfOneAxis(upd.wrote, upd.after)

\* a step of update_position under Spec: nothing is planned, activated or
\* stepped
UpdateStep ==
    /\ planned' = planned
    /\ ticks' = ticks
    /\ Len(movebuffer') = Len(movebuffer)

\* C12 as stated: update_position on a live record sets every one of X,
\* Y, Z and E to endpoint - remaining steps if the axis's direction flag
\* is positive and to endpoint + remaining steps otherwise.
C12_AllAxesFromEndpoint ==
    [][(UpdateStep /\ CurrentDDA.live = 1) =>
        /\ current_position'.X =
              IF CurrentDDA.x_direction = 1
                THEN CurrentDDA.endpoint.X - move_state.x_steps
                ELSE CurrentDDA.endpoint.X + move_state.x_steps
        /\ current_position'.Y =
              IF CurrentDDA.y_direction = 1
                THEN CurrentDDA.endpoint.Y - move_state.y_steps
                ELSE CurrentDDA.endpoint.Y + move_state.y_steps
        /\ current_position'.Z =
              IF CurrentDDA.z_direction = 1
                THEN CurrentDDA.endpoint.Z - move_state.z_steps
                ELSE CurrentDDA.endpoint.Z + move_state.z_steps
        /\ current_position'.E =
              IF CurrentDDA.e_direction = 1
                THEN CurrentDDA.endpoint.E - move_state.e_steps
                ELSE CurrentDDA.endpoint.E + move_state.e_steps]_vars

\* C12 amended: update_position on a live record sets X, Y and Z to
\* endpoint - remaining steps if the axis's direction flag is positive and
\* to endpoint + remaining steps otherwise; E, relative in this
\* configuration, is set to the remaining E steps, whatever the direction
\* and the endpoint; F is left alone.
C12_PositionFromRemainingSteps ==
    [][(UpdateStep /\ CurrentDDA.live = 1) =>
        /\ current_position'.X =
              IF CurrentDDA.x_direction = 1
                THEN CurrentDDA.endpoint.X - move_state.x_steps
                ELSE CurrentDDA.endpoint.X + move_state.x_steps
        /\ current_position'.Y =
              IF CurrentDDA.y_direction = 1
                THEN CurrentDDA.endpoint.Y - move_state.y_steps
                ELSE CurrentDDA.endpoint.Y + move_state.y_steps
        /\ current_position'.Z =
              IF CurrentDDA.z_direction = 1
                THEN CurrentDDA.endpoint.Z - move_state.z_steps
                ELSE CurrentDDA.endpoint.Z + move_state.z_steps
        /\ current_position'.E = move_state.e_steps
        /\ current_position'.F = current_position.F]_vars

C12_Witness ==
    /\ CurrentDDA.live = 1
    /\ CurrentDDA.x_direction = 0
    /\ move_state.x_steps = 1
    /\ current_position.X = CurrentDDA.endpoint.X + 1
    /\ CurrentDDA.endpoint.E = 1
    /\ move_state.e_steps = 1
    /\ current_position.E = 1

\* C13: when the record at mb_tail is not live, update_position changes
\* nothing: current_position, move_state, startpoint and the queue's
\* records stay as they are.
C13_NoOpWhenNotLive ==
    [][(UpdateStep /\ CurrentDDA.live = 0) =>
        UNCHANGED <<current_position, move_state, startpoint, movebuffer>>]_vars

C13_Witness ==
    /\ Completed
    /\ current_position.X # CurrentDDA.endpoint.X
    /\ update_position(CurrentDDA, move_state, current_position) = current_position
    /\ TrackedPosition(CurrentDDA, move_state, current_position) # current_position

\* a step of dda_step
TickStep == ticks' = ticks + 1

\* C14: on every tick of a move the step period move_state.c does not
\* grow while step_no < rampup_steps, does not change while
\* rampup_steps <= step_no <= rampdown_steps, and does not shrink while
\* step_no > rampdown_steps (step_no as the tick finds it).
C14_PeriodMonotone ==
    [][TickStep =>
        LET d == CurrentDDA
            step_no == move_state.step_no
        IN  /\ step_no < d.rampup_steps => move_state'.c <= move_state.c
            /\ (step_no >= d.rampup_steps /\ step_no <= d.rampdown_steps) =>
                   move_state'.c = move_state.c
            /\ step_no > d.rampdown_steps => move_state'.c >= move_state.c]_vars

C14_Witness ==
    /\ Completed
    /\ CurrentDDA.total_steps = 1000
    /\ CurrentDDA.rampup_steps > 20
    /\ CurrentDDA.rampdown_steps < 980
    /\ move_state.step_no = 1001
    /\ move_state.n = -3
    /\ move_state.c > CurrentDDA.c_min

\* the move of scenario B: from the origin to (1000, 500, 0, 0)
IsScenarioB(dda) ==
    /\ dda.endpoint.X = 1000 /\ dda.endpoint.Y = 500
    /\ dda.x_delta = 1000 /\ dda.y_delta = 500
    /\ dda.z_delta = 0 /\ dda.e_delta = 0

\* C16: the move (0,0,0,0) -> (1000,500,0,0) has total_steps 1000, emits
\* exactly 500 Y pulses (never more, and 500 once it is complete), and any
\* two consecutive Y pulses are 1, 2 or 3 ticks apart.
C16_ScenarioB ==
    [][IsScenarioB(CurrentDDA') =>
        /\ CurrentDDA'.total_steps = 1000
        /\ pulses'.Y <= 500
        /\ Completed' => pulses'.Y = 500
        /\ (TickStep /\ pulses'.Y = pulses.Y + 1 /\ last_step.Y > 0) =>
               /\ last_step'.Y = ticks'
               /\ last_step'.Y - last_step.Y \in {1, 2, 3}]_vars

C16_Witness ==
    /\ Completed
    /\ IsScenarioB(CurrentDDA)
    /\ pulses.X = 1000 /\ pulses.Y = 500
    /\ last_step.X = 1000
    /\ last_step.Y = 998
    /\ ticks = 1001

\* the ramp length dda_create computed for a non-null record, before
\* clipping
UnclippedRamp(dda) ==
    RampLength(Shr(dda.c_min, 8),
               FoldEFeed(PlanarDistance(dda.x_delta, dda.y_delta, dda.z_delta),
                         STEPS_TO_UM_E(dda.e_delta)),
               dda.total_steps)

\* the moves of scenario C: 10 steps, natural ramp length 20
IsScenarioC(dda) ==
    /\ dda.nullmove = 0
    /\ dda.total_steps = 10
    /\ UnclippedRamp(dda) = 20

\* C17: a move with total_steps = 10 whose unclipped ramp length is 20 has
\* rampup_steps = 5 and rampdown_steps = 5, and from its activation on, at
\* every tick, move_state.c stays above the cruise period c_min.
C17_ScenarioC ==
    /\ \A i \in DOMAIN movebuffer :
           IsScenarioC(movebuffer[i]) =>
               /\ movebuffer[i].rampup_steps = 5
               /\ movebuffer[i].rampdown_steps = 5
    /\ IsScenarioC(CurrentDDA) => move_state.c > CurrentDDA.c_min

C17_Witness ==
    /\ Completed
    /\ IsScenarioC(CurrentDDA)
    /\ CurrentDDA.rampup_steps = 5
    /\ ticks = 11
    /\ move_state.step_no = 11
    /\ move_state.c > CurrentDDA.c_min
    /\ move_state.c < 2 * CurrentDDA.c0

\* C15: in taper mode, on every tick of a move the period c moves toward
\* end_c and never past it: from above end_c it does not grow and does not
\* fall below end_c, from below it does not shrink and does not rise above
\* end_c, and at end_c it stays; end_c itself never changes.
C15_TaperMonotone ==
    [][TickStep =>
        LET d == CurrentDDA
            e == CurrentDDA'
        IN  /\ e.end_c = d.end_c
            /\ d.c > d.end_c => (e.c <= d.c /\ e.c >= d.end_c)
            /\ d.c < d.end_c => (e.c >= d.c /\ e.c <= d.end_c)
            /\ d.c = d.end_c => e.c = d.c]_vars

C15_Witness ==
    /\ CurrentDDA.live = 1
    /\ CurrentDDA.accel = 1
    /\ ticks = 3
    /\ CurrentDDA.endpoint.F = HIGHER_FEEDRATE
    /\ CurrentDDA.c > CurrentDDA.end_c
    /\ CurrentDDA.n > 12

\* C18: no division of dda_create or dda_step has a zero divisor, for any
\* non-null move with positive start and target feed rates (here in the
\* taper build), and a null move divides by nothing.
C18_NoZeroDivisor ==
    [][/\ EnqueueStep =>
            IF LastDDA'.nullmove = 1 THEN plan_trace'.divisors = {}
            ELSE 0 \notin plan_trace'.divisors
       /\ TickStep => 0 \notin TaperStepDivisors(CurrentDDA)]_vars

\* C19: dda_start on a non-null record sets every Bresenham counter to
\* -(total_steps / 2), every remaining-step count to its axis's delta,
\* step_no to 0, the step period to the record's c0 and live to 1; the
\* timer is programmed after that, from the new period: with
\* max(c_min, c0) >> 8.
C19_StartState ==
    [][(NextMoveStep /\ movebuffer[2].nullmove = 0) =>
        LET d == movebuffer[2]
            half == d.total_steps \div 2
        IN  /\ move_state'.x_counter = -half /\ move_state'.y_counter = -half
            /\ move_state'.z_counter = -half /\ move_state'.e_counter = -half
            /\ move_state'.x_steps = d.x_delta /\ move_state'.y_steps = d.y_delta
            /\ move_state'.z_steps = d.z_delta /\ move_state'.e_steps = d.e_delta
            /\ move_state'.step_no = 0
            /\ move_state'.c = d.c0
            /\ CurrentDDA' = [d EXCEPT !.live = 1]
            /\ hw'.timer = Max2(d.c_min, d.c0) \div 256
            /\ timer_en']_vars

C19_Witness ==
    /\ planned = 2
    /\ queue_empty
    /\ CurrentDDA.live = 1
    /\ ticks = 0
    /\ CurrentDDA.total_steps = 2
    /\ CurrentDDA.y_delta = 1
    /\ move_state.x_counter = -1 /\ move_state.y_counter = -1
    /\ move_state.x_steps = 2 /\ move_state.y_steps = 1
    /\ move_state.step_no = 0
    /\ move_state.c = CurrentDDA.c0
    /\ move_state.n = -3

C21_TimerFloor ==
    (CurrentDDA.total_steps > 0) =>
        /\ hw.timer = Shr(Max2(CurrentDDA.c_min, move_state.c), 8)
        /\ hw.timer >= Shr(CurrentDDA.c_min, 8)

\* the ramp has taken the step period below c_min and the timer got c_min
C21_Witness ==
    /\ CurrentDDA.live = 1
    /\ ticks > 0
    /\ move_state.c < CurrentDDA.c_min
    /\ hw.timer = Shr(CurrentDDA.c_min, 8)

(***************************************************************************)
(* C22: the dda_step invocation on which no axis pulses and no axis has    *)
(* steps left clears live, stores the endpoint feed rate in                *)
(* current_position.F, clears current_position.E (relative E) and disables *)
(* the Z driver; every other invocation leaves live, current_position.F    *)
(* and the Z driver as they were.                                          *)
(***************************************************************************)
C22_CompletionEffects ==
    [][TickStep =>
        LET detected ==
                /\ pulses' = pulses
                /\ move_state'.x_steps = 0 /\ move_state'.y_steps = 0
                /\ move_state'.z_steps = 0 /\ move_state'.e_steps = 0
        IN  IF detected
              THEN /\ CurrentDDA'.live = 0
                   /\ current_position'.F = CurrentDDA.endpoint.F
                   /\ hw'.z_en = 0
                   /\ (E_ABSOLUTE = 0 => current_position'.E = 0)
              ELSE /\ CurrentDDA'.live = CurrentDDA.live
                   /\ current_position'.F = current_position.F
                   /\ hw'.z_en = hw.z_en]_vars

\* a move of Z and E that changed the feed rate has completed
C22_Witness ==
    /\ CurrentDDA.live = 0
    /\ CurrentDDA.z_delta > 0 /\ CurrentDDA.e_delta > 0
    /\ ticks = CurrentDDA.total_steps + 1
    /\ pulses.Z = CurrentDDA.z_delta /\ pulses.E = CurrentDDA.e_delta
    /\ CurrentDDA.endpoint.F = FAST_FEEDRATE
    /\ current_position.F = FAST_FEEDRATE
    /\ current_position.E = 0
    /\ hw.z_en = 0

(***************************************************************************)
(* C23: an axis whose delta equals total_steps pulses on every one of the  *)
(* first total_steps dda_step invocations of the move, whatever the deltas *)
(* of the other axes: after t invocations it has emitted min(t,            *)
(* total_steps) pulses.                                                    *)
(***************************************************************************)
C23_LargestAxisNeverSkips ==
    (CurrentDDA.total_steps > 0) =>
        \A a \in Axes :
            (Deltas(CurrentDDA)[a] = CurrentDDA.total_steps) =>
                pulses[a] = Min2(ticks, CurrentDDA.total_steps)

\* the largest axis has pulsed on every tick so far while another axis
\* with a smaller delta has skipped at least one
C23_Witness ==
    /\ CurrentDDA.live = 1
    /\ ticks > 2 /\ ticks <= CurrentDDA.total_steps
    /\ \E a, b \in Axes :
          /\ Deltas(CurrentDDA)[a] = CurrentDDA.total_steps
          /\ pulses[a] = ticks
          /\ Deltas(CurrentDDA)[b] > 0
          /\ pulses[b] > 0 /\ pulses[b] < ticks

C25_PlannerFrame ==
    [][/\ EnqueueStep =>
              /\ move_state' = move_state
              /\ current_position' = current_position
       /\ (startpoint' # startpoint) => EnqueueStep]_vars

\* a record is being stepped and one more move has been planned behind it:
\* startpoint is that move's target, the running move's state is in place
C25_Witness ==
    /\ CurrentDDA.live = 1
    /\ ticks > 0
    /\ Len(movebuffer) = 2
    /\ planned = 2
    /\ startpoint = StartpointAfter(LastDDA.endpoint)
    /\ startpoint # StartpointAfter(CurrentDDA.endpoint)
    /\ move_state.x_steps + pulses.X = CurrentDDA.x_delta
    /\ move_state.step_no = ticks

\* the step pins and the Bresenham part of move_state
StepPins(h) == <<h.x_stp, h.y_stp, h.z_stp, h.e_stp>>
Bresenham(ms) ==
    <<ms.x_counter, ms.y_counter, ms.z_counter, ms.e_counter,
      ms.x_steps, ms.y_steps, ms.z_steps, ms.e_steps>>

(***************************************************************************)
(* C26: a dda_step invocation has two phases around a preemptible middle.  *)
(* Pulses are emitted and counters and remaining steps updated with        *)
(* interrupts disabled, before sei; the ramp recurrence and the completion *)
(* test run with interrupts enabled; after cli the timer is programmed     *)
(* and then the step pins are de-asserted, both with interrupts disabled;  *)
(* when dda_step has returned no step pin is asserted.                     *)
(***************************************************************************)
C26_TwoPhaseTick ==
    /\ [](isr # <<>> =>
            /\ (Head(isr).pc \in {"pulses", "sei", "settimer", "unstep", "return"})
                   => ~iflag
            /\ (Head(isr).pc \in {"ramp", "finish", "cli"}) => iflag
            /\ (Head(isr).pc \in {"pulses", "return"})
                   => StepPins(hw) = <<0, 0, 0, 0>>)
    /\ [][/\ (\E a \in Axes : pulses'[a] > pulses[a]) =>
                 AtPC("pulses") /\ ~iflag /\ ~iflag'
          /\ (isr # <<>> /\ Head(isr).pc \notin {"pulses", "return"}) =>
                 /\ pulses' = pulses
                 /\ Bresenham(move_state') = Bresenham(move_state)
                 /\ \A i \in 1..4 : StepPins(hw')[i] <= StepPins(hw)[i]
          /\ (/\ isr # <<>> /\ Head(isr).pc # "return"
              /\ \/ move_state'.step_no # move_state.step_no
                 \/ move_state'.c # move_state.c
                 \/ move_state'.n # move_state.n
                 \/ CurrentDDA'.live # CurrentDDA.live) =>
                 iflag /\ iflag'
          /\ (isr # <<>> /\ ~timer_en /\ timer_en') =>
                 /\ ~iflag /\ ~iflag'
                 /\ StepPins(hw') = StepPins(hw)
          /\ (StepPins(hw') # StepPins(hw) /\ ~AtPC("pulses")) =>
                 /\ AtPC("unstep") /\ ~iflag /\ ~iflag'
                 /\ timer_en
                 /\ StepPins(hw') = <<0, 0, 0, 0>>]_vars

\* in the preemptible phase of a tick: interrupts are enabled, the pulse of
\* this tick is counted and its pin still asserted, the ramp has advanced
C26_Witness ==
    /\ AtPC("cli")
    /\ iflag
    /\ hw.x_stp = 1
    /\ pulses.X > 0
    /\ move_state.step_no = ticks
    /\ ~timer_en

(***************************************************************************)
(* C27: in the taper build a record as dda_create leaves it has its        *)
(* initial period c and its final period end_c capped below by c_limit:    *)
(* the timer delays c >> 8 and end_c >> 8 are at least c_limit.            *)
(***************************************************************************)
C27_TaperPeriodsCapped ==
    (Len(movebuffer) > 1 /\ LastDDA.total_steps > 0) =>
        /\ Shr(LastDDA.c, 8) >= plan_trace.c_limit
        /\ Shr(LastDDA.end_c, 8) >= plan_trace.c_limit

(***************************************************************************)
(* C28: in the ramping build a completed move ends at the step period it   *)
(* started with: after the last dda_step invocation of a move,             *)
(* move_state.c is the c0 that dda_start stored.                           *)
(***************************************************************************)
C28_RampRoundTrip ==
    Completed => move_state.c = CurrentDDA.c0

(***************************************************************************)
(* C29: the staged ramp-length computation of dda_create stays within 32   *)
(* bits inside its bit budget.  When F_CPU / c_limit fits in 13 bits and   *)
(* distance fits in 18 bits, the square fits in 26 bits, the square        *)
(* scaled down by 2^12 fits in 14 bits and its product with distance fits  *)
(* in 32 bits, so the ramp length and rampup_steps are those of the same   *)
(* formula in unbounded integers.                                          *)
(***************************************************************************)
C29_RampLengthWithinBudget ==
    LET x0 == F_CPU \div plan_trace.c_limit
        x1 == x0 * x0
        x2 == x1 \div (2 ^ 12)
        divisor == MulDivQR(Shr(2000 * ACCELERATION, 6), LastDDA.total_steps, 2 ^ 6).q
        exact == MulDivQR(x2, plan_trace.distance, divisor).q
    IN  (/\ planned > 0 /\ LastDDA.total_steps > 0
         /\ x0 < 2 ^ 13 /\ plan_trace.distance < 2 ^ 18) =>
            /\ x1 < 2 ^ 26
            /\ x2 < 2 ^ 14
            /\ MulDivQR(x2, plan_trace.distance, 2 ^ 16).q < 2 ^ 16
            /\ plan_trace.x = exact
            /\ LastDDA.rampup_steps =
                   IF 2 * exact > LastDDA.total_steps
                     THEN LastDDA.total_steps \div 2 ELSE exact

\* a move within the budget whose product with distance needs the 32nd bit
C29_Witness ==
    /\ planned > 0 /\ LastDDA.total_steps > 0
    /\ F_CPU \div plan_trace.c_limit < 2 ^ 13
    /\ plan_trace.distance < 2 ^ 18
    /\ plan_trace.distance >= 2 ^ 17
    /\ MulDivQR(Shr((F_CPU \div plan_trace.c_limit) * (F_CPU \div plan_trace.c_limit), 12),
                plan_trace.distance, 2 ^ 16).q >= 2 ^ 15
    /\ plan_trace.x > 0
    /\ LastDDA.rampup_steps = plan_trace.x

\* the direction of an axis as a sign
SignOf(direction) == IF direction = 1 THEN 1 ELSE -1

(***************************************************************************)
(* C30: while a record is live, for every axis the pulses emitted for the  *)
(* record so far plus the remaining steps are the planned delta; so the    *)
(* position update_position derives as endpoint minus or plus remaining    *)
(* (X, Y and Z) is the origin of the move, the startpoint it was planned   *)
(* from, moved by the pulses emitted, with the sign of the direction.      *)
(***************************************************************************)
C30_PulsesPlusRemaining ==
    /\ [](CurrentDDA.live = 1 =>
            LET dda == CurrentDDA
                pos == update_position(dda, move_state, current_position)
            IN  /\ pulses.X + move_state.x_steps = dda.x_delta
                /\ pulses.Y + move_state.y_steps = dda.y_delta
                /\ pulses.Z + move_state.z_steps = dda.z_delta
                /\ pulses.E + move_state.e_steps = dda.e_delta
                /\ pos.X = dda.endpoint.X - SignOf(dda.x_direction) * dda.x_delta
                               + SignOf(dda.x_direction) * pulses.X
                /\ pos.Y = dda.endpoint.Y - SignOf(dda.y_direction) * dda.y_delta
                               + SignOf(dda.y_direction) * pulses.Y
                /\ pos.Z = dda.endpoint.Z - SignOf(dda.z_direction) * dda.z_delta
                               + SignOf(dda.z_direction) * pulses.Z)
    /\ [][EnqueueStep =>
            LET dda == LastDDA'
            IN  /\ dda.endpoint.X - SignOf(dda.x_direction) * dda.x_delta = startpoint.X
                /\ dda.endpoint.Y - SignOf(dda.y_direction) * dda.y_delta = startpoint.Y
                /\ dda.endpoint.Z - SignOf(dda.z_direction) * dda.z_delta = startpoint.Z]_vars

\* half way through a two-step move in the negative X direction
C30_Witness ==
    /\ CurrentDDA.live = 1
    /\ CurrentDDA.x_direction = 0
    /\ CurrentDDA.x_delta = 2
    /\ pulses.X = 1
    /\ move_state.x_steps = 1
    /\ update_position(CurrentDDA, move_state, current_position).X
           = CurrentDDA.endpoint.X + 1

\* the Bresenham error counter of every axis
Counters(ms) ==
    {ms.x_counter, ms.y_counter, ms.z_counter, ms.e_counter}

(***************************************************************************)
(* C31: while a record is live, from dda_start on and after every dda_step *)
(* each axis's Bresenham error counter is at least -(total_steps / 2), the *)
(* value dda_start gave it, and below total_steps.                         *)
(***************************************************************************)
C31_CounterRange ==
    CurrentDDA.live = 1 =>
        \A counter \in Counters(move_state) :
            /\ counter >= -Shr(CurrentDDA.total_steps, 1)
            /\ counter < CurrentDDA.total_steps

\* deep in the 1000-step move: X is back on its initial value, the slower Y
\* axis is above zero
C31_Witness ==
    /\ CurrentDDA.live = 1
    /\ CurrentDDA.total_steps = ScenarioLong
    /\ ticks > ScenarioLong \div 2
    /\ move_state.x_counter = -Shr(CurrentDDA.total_steps, 1)
    /\ move_state.y_counter > 0
    /\ move_state.y_counter < CurrentDDA.total_steps

(***************************************************************************)
(* C32: no axis lags its ideal line.  After k dda_step invocations of a    *)
(* move, 1 <= k <= total_steps, the pulses e emitted on each axis satisfy  *)
(* e * total_steps >= k * delta; an axis with a nonzero delta has pulsed   *)
(* on the first tick, and at tick total_steps every axis has emitted all   *)
(* its pulses.                                                             *)
(***************************************************************************)
C32_NoAxisLags ==
    (CurrentDDA.live = 1 /\ ticks >= 1 /\ ticks <= CurrentDDA.total_steps) =>
        \A a \in Axes :
            /\ pulses[a] * CurrentDDA.total_steps >= ticks * Deltas(CurrentDDA)[a]
            /\ Deltas(CurrentDDA)[a] # 0 => pulses[a] >= 1
            /\ ticks = CurrentDDA.total_steps => pulses[a] = Deltas(CurrentDDA)[a]

\* three ticks into a move of 10 steps of X and 7 of Z: Z has pulsed on
\* every tick so far, one pulse ahead of its ideal line
C32_Witness ==
    /\ CurrentDDA.live = 1
    /\ CurrentDDA.total_steps = ScenarioShort
    /\ CurrentDDA.z_delta = ScenarioShortZ
    /\ ticks = 3
    /\ pulses.X = 3
    /\ pulses.Z = 3

(***************************************************************************)
(* C33: in ramping mode the ramp is symmetric over a complete move: the    *)
(* accelerating recalculations and the decelerating recalculations of a    *)
(* completed move both number rampup_steps.  The slope counter             *)
(* move_state.n is 1 after dda_init, dda_start leaves it alone, and it is  *)
(* 1 or -3 whenever no move is live, so the first accelerating             *)
(* recalculation of every move is done with n = 5.                         *)
(***************************************************************************)
C33_RampSymmetric ==
    /\ [](Completed =>
            /\ recalcs.up = CurrentDDA.rampup_steps
            /\ recalcs.down = CurrentDDA.rampup_steps)
    /\ [](Activated = 0 => move_state.n = 1)
    /\ [](CurrentDDA.live = 0 => move_state.n \in {1, -3})
    /\ [][NextMoveStep => move_state'.n = move_state.n]_vars
    /\ [][(TickStep /\ recalcs.up = 0 /\ recalcs'.up = 1) =>
              move_state'.n = 5]_vars

\* the second move of a run, back from X = ScenarioShort where the first
\* move and its ramp down ended, has done its first accelerating
\* recalculation
C33_Witness ==
    /\ Activated = 2
    /\ CurrentDDA.live = 1
    /\ CurrentDDA.rampup_steps > 1
    /\ recalcs = [up |-> 1, down |-> 0]
    /\ move_state.n = 5
    /\ CurrentDDA.x_direction = 0
    /\ CurrentDDA.x_delta = ScenarioShort

(***************************************************************************)
(* C34: the Z driver starts disabled, and after any sequence of            *)
(* dda_create, dda_start and dda_step it is enabled if and only if a       *)
(* record is live and that record has a nonzero z_delta; planning a move   *)
(* leaves the Z driver as it was.                                          *)
(***************************************************************************)
C34_ZEnabledWhileMovingZ ==
    /\ [](hw.z_en = 1 <=>
            \E i \in DOMAIN movebuffer :
                movebuffer[i].live = 1 /\ movebuffer[i].z_delta # 0)
    /\ [][EnqueueStep => hw'.z_en = hw.z_en]_vars

\* the second move of a run is live and moves X but not Z; the first move
\* took Z to MaxZ, so the driver has been on and was switched off again
C34_Witness ==
    /\ Activated = 2
    /\ CurrentDDA.live = 1
    /\ ticks >= 1
    /\ CurrentDDA.endpoint.Z = MaxZ
    /\ CurrentDDA.z_delta = 0
    /\ CurrentDDA.x_delta # 0
    /\ hw.z_en = 0
    /\ hw.x_en = 1
=============================================================================
